---- MODULE Spec2Model ----
(***************************************************************************)
(* A model of the rust-trading-engine crate: the order book                *)
(* (matching_engine/orderbook.rs) and the market registry                  *)
(* (matching_engine/engine.rs).                                            *)
(*                                                                         *)
(* Order.size is an f64.  A size is modelled as an integer count of the    *)
(* smallest unit, and every subtraction is rounded to the nearest value    *)
(* with a Precision-bit significand, ties to even, as IEEE 754 binary64    *)
(* does with its 53-bit significand.  Prices are rust_decimal Decimals:    *)
(* exact, totally ordered, equal and hashed by value; they are integers    *)
(* here.                                                                   *)
(*                                                                         *)
(* fill_market_order is modelled one resting order at a time: a step is    *)
(* one iteration of Limit::fill_order's loop body together with the loop   *)
(* control that follows it, so that statements about every step of a fill  *)
(* can be checked.  The crate is single-threaded: no other call starts     *)
(* while a fill is running.                                                *)
(*                                                                         *)
(* Ghost state (no counterpart in the code, never read by an operation's   *)
(* result): Order.id (the identity of the Rust value: the order is the     *)
(* id-th one placed at its book, side and price), placed (how many orders  *)
(* each book, side and price has accepted), book_before and market_before  *)
(* (the book and the market order's size when the running                  *)
(* fill_market_order was called).                                          *)
(***************************************************************************)
EXTENDS Integers, Sequences, FiniteSets, TLC

\* Significand width of the modelled floating-point sizes (53 in an f64).
Precision == 3

\* Resting orders held by all books together.
MaxOrders == 3

\* Market orders filled in one run.
MaxFills == 2

\* Largest size and longest queue of the Limit a fill_order run starts from.
MaxSize == 12
MaxQueue == 2

\* Sizes given to Order::new: non-negative (spec 4.1), representable at
\* Precision bits; 10 - 1 = 9 is not representable and rounds to 8.
Sizes == {0, 1, 10}

\* Prices given to add_limit_order on the owned book.
Prices == {100, 200, 300}

\* Sizes and prices given to place_limit_order.  The engine only stores
\* what it is given (it never sorts or fills its books), so fewer values
\* exercise it.
EngineSizes == {1, 10}
EnginePrices == {100, 200}

Sides == {"Bid", "Ask"}

\* The trading pairs a caller may name.
Pairs == {[base |-> "BTC", quote |-> "USD"], [base |-> "ETH", quote |-> "USD"]}

VARIABLES
    orderbook,      \* a directly owned OrderBook (main.rs:10, the tests)
    engine,         \* the MatchingEngine
    result,         \* what place_limit_order returned, until the next call
    pc,             \* "idle", or "fill" / "returned" in fill_market_order
    market_order,   \* the caller's market order during a fill
    limits,         \* fill_market_order's local `limits` (keys of the levels)
    li,             \* index in limits of the level being filled
    oi,             \* number of orders of that level already visited
    placed,         \* ghost: orders accepted per <<book, side, price>>
    resident,       \* ghost: orders held by all books together
    fills,          \* ghost: fill_market_order calls so far
    book_before,    \* ghost: orderbook when the running fill was called
    market_before   \* ghost: the market order's size when it was called

vars == <<orderbook, engine, result, pc, market_order, limits, li, oi,
          placed, resident, fills, book_before, market_before>>

----------------------------------------------------------------------------
(* f64 arithmetic *)

RECURSIVE Pow2(_)
Pow2(n) == IF n = 0 THEN 1 ELSE 2 * Pow2(n - 1)

\* The least e >= from with x < 2^(Precision + e): the binary exponent of x.
RECURSIVE ExponentFrom(_, _)
ExponentFrom(x, from) ==
    IF x < Pow2(Precision + from) THEN from ELSE ExponentFrom(x, from + 1)

\* Round a non-negative real (here: integer) to the nearest representable
\* value, ties to the even significand.
RoundMagnitude(x) ==
    LET e == ExponentFrom(x, 0)
        unit == Pow2(e)
        q == x \div unit
        r == x % unit
        up == (2 * r > unit) \/ (2 * r = unit /\ q % 2 = 1)
    IN  IF e = 0 THEN x ELSE (IF up THEN q + 1 ELSE q) * unit

RoundF64(x) == IF x >= 0 THEN RoundMagnitude(x) ELSE 0 - RoundMagnitude(0 - x)

\* a - b on f64 (the `-=` of fill_order).
f64_sub(a, b) == RoundF64(a - b)

\* a + b on f64 (the closure of total_volume's reduce).
f64_add(a, b) == RoundF64(a + b)

Representable(x) == RoundF64(x) = x

\* Every size up to MaxSize an f64 of Precision bits can hold.
TestSizes == {x \in 0..MaxSize : Representable(x)}

----------------------------------------------------------------------------
(* Order, Limit, OrderBook *)

Order_new(bid_or_ask, size, id) ==
    [size |-> size, bid_or_ask |-> bid_or_ask, id |-> id]

\* is_filled that takes a size of at most one unit for zero (a mutant of
\* is_filled).
is_filled_within_one(order) == order.size <= 1

is_filled(order) == order.size = 0

Limit_new(price) == [price |-> price, orders |-> <<>>]

\* Iterator::reduce(|a, b| a + b) over the sizes of a non-empty queue: the
\* first size, then one rounded addition per further order, left to right.
RECURSIVE reduce_add(_)
reduce_add(orders) ==
    IF Len(orders) = 1 THEN orders[1].size
    ELSE f64_add(reduce_add(SubSeq(orders, 1, Len(orders) - 1)),
                 orders[Len(orders)].size)

\* What total_volume does: reduce yields None on an empty queue and unwrap
\* panics; otherwise the f64 sum is returned.
total_volume(limit) ==
    IF limit.orders = <<>>
    THEN [panicked |-> TRUE, value |-> 0]
    ELSE [panicked |-> FALSE, value |-> reduce_add(limit.orders)]

\* add_order that puts the order at the front of the queue (a mutant of
\* add_order).
add_order_front(limit, order) == [limit EXCEPT !.orders = <<order>> \o @]

add_order(limit, order) == [limit EXCEPT !.orders = Append(@, order)]

\* HashMap::new and HashMap::insert.
EmptyMap == [k \in {} |-> 0]
HashMapInsert(map, key, value) ==
    [k \in DOMAIN map \cup {key} |-> IF k = key THEN value ELSE map[k]]

OrderBook_new == [asks |-> EmptyMap, bids |-> EmptyMap]

\* add_limit_order that inserts a new Limit without looking for the one
\* already at the price (a mutant of add_limit_order).
add_limit_order_always_new(book, price, order) ==
    IF order.bid_or_ask = "Bid"
    THEN [book EXCEPT !.bids =
              HashMapInsert(@, price, add_order(Limit_new(price), order))]
    ELSE [book EXCEPT !.asks =
              HashMapInsert(@, price, add_order(Limit_new(price), order))]

\* add_limit_order that inserts the new Limit of a price without the order
\* (a mutant of add_limit_order).
add_limit_order_forgets_order(book, price, order) ==
    IF order.bid_or_ask = "Bid"
    THEN IF price \in DOMAIN book.bids
         THEN [book EXCEPT !.bids[price] = add_order(@, order)]
         ELSE [book EXCEPT !.bids = HashMapInsert(@, price, Limit_new(price))]
    ELSE IF price \in DOMAIN book.asks
         THEN [book EXCEPT !.asks[price] = add_order(@, order)]
         ELSE [book EXCEPT !.asks = HashMapInsert(@, price, Limit_new(price))]

\* add_limit_order that matches an order against the opposite level of its
\* price, exhausting that level's first order, instead of resting it (a
\* mutant of add_limit_order).
add_limit_order_matching(book, price, order) ==
    IF order.bid_or_ask = "Bid"
    THEN IF price \in DOMAIN book.asks
         THEN [book EXCEPT !.asks[price].orders[1].size = 0]
         ELSE IF price \in DOMAIN book.bids
         THEN [book EXCEPT !.bids[price] = add_order(@, order)]
         ELSE [book EXCEPT !.bids =
                   HashMapInsert(@, price, add_order(Limit_new(price), order))]
    ELSE IF price \in DOMAIN book.bids
         THEN [book EXCEPT !.bids[price].orders[1].size = 0]
         ELSE IF price \in DOMAIN book.asks
         THEN [book EXCEPT !.asks[price] = add_order(@, order)]
         ELSE [book EXCEPT !.asks =
                   HashMapInsert(@, price, add_order(Limit_new(price), order))]

add_limit_order(book, price, order) ==
    IF order.bid_or_ask = "Bid"
    THEN IF price \in DOMAIN book.bids
         THEN [book EXCEPT !.bids[price] = add_order(@, order)]
         ELSE [book EXCEPT !.bids =
                   HashMapInsert(@, price, add_order(Limit_new(price), order))]
    ELSE IF price \in DOMAIN book.asks
         THEN [book EXCEPT !.asks[price] = add_order(@, order)]
         ELSE [book EXCEPT !.asks =
                   HashMapInsert(@, price, add_order(Limit_new(price), order))]

\* The orders in which HashMap::values_mut may yield the levels of a map:
\* every sequence holding each key once.
IterationOrders(map) ==
    {f \in [1..Cardinality(DOMAIN map) -> DOMAIN map] :
        \A k \in DOMAIN map : \E i \in DOMAIN f : f[i] = k}

\* ask_cmp with the comparison the wrong way round (a mutant of ask_cmp).
ask_cmp_reversed(a, b) == b.price <= a.price

\* bid_cmp comparing as ask_limits does (a mutant of bid_cmp).
bid_cmp_ascending(a, b) == a.price <= b.price

\* The comparators of the two sort_by calls: TRUE when a may stay before b.
ask_cmp(a, b) == a.price <= b.price
bid_cmp(a, b) == b.price <= a.price

\* slice::sort_by, a stable sort, as an insertion sort over references to
\* the levels of map (a reference is the level's key).
RECURSIVE InsertSorted(_, _, _, _)
InsertSorted(sorted, ref, map, descending) ==
    IF sorted = <<>> THEN <<ref>>
    ELSE LET last == sorted[Len(sorted)]
             keep == IF descending THEN bid_cmp(map[last], map[ref])
                                   ELSE ask_cmp(map[last], map[ref])
         IN  IF keep THEN Append(sorted, ref)
             ELSE Append(InsertSorted(SubSeq(sorted, 1, Len(sorted) - 1),
                                      ref, map, descending), last)

RECURSIVE sort_by(_, _, _)
sort_by(refs, map, descending) ==
    IF refs = <<>> THEN <<>>
    ELSE InsertSorted(sort_by(SubSeq(refs, 1, Len(refs) - 1), map, descending),
                      refs[Len(refs)], map, descending)

\* iter is the order in which values_mut yielded the levels.
ask_limits(book, iter) == sort_by(iter, book.asks, FALSE)
bid_limits(book, iter) == sort_by(iter, book.bids, TRUE)

\* fill_order_step whose second branch forgets `market_order.size = 0.0`
\* (a mutant of fill_order_step).
fill_order_step_keeps_market(market, limit_order) ==
    IF market.size >= limit_order.size
    THEN [market |-> [market EXCEPT !.size = f64_sub(@, limit_order.size)],
          limit_order |-> [limit_order EXCEPT !.size = 0]]
    ELSE [market |-> market,
          limit_order |-> [limit_order EXCEPT !.size = f64_sub(@, market.size)]]

\* fill_order_step with the comparison the wrong way round (a mutant of
\* fill_order_step).
fill_order_step_flipped(market, limit_order) ==
    IF market.size <= limit_order.size
    THEN [market |-> [market EXCEPT !.size = f64_sub(@, limit_order.size)],
          limit_order |-> [limit_order EXCEPT !.size = 0]]
    ELSE [market |-> [market EXCEPT !.size = 0],
          limit_order |-> [limit_order EXCEPT !.size = f64_sub(@, market.size)]]

\* fill_order_step that zeroes both orders whatever their sizes (a mutant of
\* fill_order_step).
fill_order_step_zeroes_both(market, limit_order) ==
    [market |-> [market EXCEPT !.size = 0],
     limit_order |-> [limit_order EXCEPT !.size = 0]]

\* fill_order_step whose second branch adds instead of subtracting (a mutant
\* of fill_order_step).
fill_order_step_adds(market, limit_order) ==
    IF market.size >= limit_order.size
    THEN [market |-> [market EXCEPT !.size = f64_sub(@, limit_order.size)],
          limit_order |-> [limit_order EXCEPT !.size = 0]]
    ELSE [market |-> [market EXCEPT !.size = 0],
          limit_order |-> [limit_order EXCEPT !.size = RoundF64(@ + market.size)]]

\* fill_order_step whose first branch writes the difference to the resting
\* order and zeroes the market order (a mutant of fill_order_step).
fill_order_step_swapped(market, limit_order) ==
    IF market.size >= limit_order.size
    THEN [market |-> [market EXCEPT !.size = 0],
          limit_order |-> [limit_order EXCEPT
                               !.size = f64_sub(market.size, @)]]
    ELSE [market |-> [market EXCEPT !.size = 0],
          limit_order |-> [limit_order EXCEPT !.size = f64_sub(@, market.size)]]

\* fill_order_step whose second branch forgets
\* `limit_order.size -= market_order.size` (a mutant of fill_order_step).
fill_order_step_keeps_resting(market, limit_order) ==
    IF market.size >= limit_order.size
    THEN [market |-> [market EXCEPT !.size = f64_sub(@, limit_order.size)],
          limit_order |-> [limit_order EXCEPT !.size = 0]]
    ELSE [market |-> [market EXCEPT !.size = 0],
          limit_order |-> limit_order]

\* One iteration of fill_order's loop body on (market order, resting order).
fill_order_step(market, limit_order) ==
    IF market.size >= limit_order.size
    THEN [market |-> [market EXCEPT !.size = f64_sub(@, limit_order.size)],
          limit_order |-> [limit_order EXCEPT !.size = 0]]
    ELSE [market |-> [market EXCEPT !.size = 0],
          limit_order |-> [limit_order EXCEPT !.size = f64_sub(@, market.size)]]

----------------------------------------------------------------------------
(* TradingPair, MatchingEngine *)

to_string(pair) == pair.base \o "_" \o pair.quote

MatchingEngine_new == [orderbooks |-> EmptyMap]

NoResult == [kind |-> "None", message |-> ""]
Ok == [kind |-> "Ok", message |-> ""]
Err(message) == [kind |-> "Err", message |-> message]

MissingMarket(pair) ==
    Err("the orderbook for the given trading pair (" \o to_string(pair)
        \o ") does not exist")

\* place_limit_order that opens the missing market and places the order (a
\* mutant of place_limit_order).
place_limit_order_opens_market(eng, pair, price, order) ==
    [engine |-> [eng EXCEPT !.orderbooks =
                     HashMapInsert(@, pair,
                         add_limit_order(
                             IF pair \in DOMAIN eng.orderbooks
                             THEN eng.orderbooks[pair] ELSE OrderBook_new,
                             price, order))],
     result |-> Ok]

\* place_limit_order that reports success for a registered pair without
\* handing the order to the book (a mutant of place_limit_order).
place_limit_order_discards(eng, pair, price, order) ==
    IF pair \in DOMAIN eng.orderbooks
    THEN [engine |-> eng, result |-> Ok]
    ELSE [engine |-> eng, result |-> MissingMarket(pair)]

\* The engine and the returned Result of place_limit_order.
place_limit_order(eng, pair, price, order) ==
    IF pair \in DOMAIN eng.orderbooks
    THEN [engine |-> [eng EXCEPT !.orderbooks[pair] =
                          add_limit_order(@, price, order)],
          result |-> Ok]
    ELSE [engine |-> eng, result |-> MissingMarket(pair)]

\* add_new_market that keeps the book of a pair already registered (a mutant
\* of add_new_market).
add_new_market_keeps_existing(eng, pair) ==
    IF pair \in DOMAIN eng.orderbooks
    THEN eng
    ELSE [eng EXCEPT !.orderbooks = HashMapInsert(@, pair, OrderBook_new)]

add_new_market(eng, pair) ==
    [eng EXCEPT !.orderbooks = HashMapInsert(@, pair, OrderBook_new)]

----------------------------------------------------------------------------
(* The state machine *)

NoOrder == [size |-> 0, bid_or_ask |-> "None", id |-> 0]

\* The side a market order is filled against.
Opposing(book, order) ==
    IF order.bid_or_ask = "Bid" THEN book.asks ELSE book.bids

\* Where fill_market_order's loops stand with `visited` orders of level
\* `level` done and the market order not filled by the last of them: at the
\* level's next order; or, fill_order having returned, after the is_filled
\* check of lines 34-36, at the first order of the next level; or at the end.
RECURSIVE Seek(_, _, _, _, _)
Seek(lims, map, market, level, visited) ==
    IF level > Len(lims)
    THEN [pc |-> "returned", li |-> Len(lims), oi |-> 0]
    ELSE IF visited < Len(map[lims[level]].orders)
    THEN [pc |-> "fill", li |-> level, oi |-> visited]
    ELSE IF is_filled(market)
    THEN [pc |-> "returned", li |-> level, oi |-> visited]
    ELSE Seek(lims, map, market, level + 1, 0)

\* Ghost bookkeeping of placements.
BookNames == {"orderbook"} \cup {to_string(pair) : pair \in Pairs}
PlacedKeys == BookNames \X Sides \X Prices

RECURSIVE SumOver(_, _)
SumOver(f, keys) ==
    IF keys = {} THEN 0
    ELSE LET k == CHOOSE x \in keys : TRUE
         IN  f[k] + SumOver(f, keys \ {k})

Init ==
    /\ orderbook = OrderBook_new
    /\ engine = MatchingEngine_new
    /\ result = NoResult
    /\ pc = "idle"
    /\ market_order = NoOrder
    /\ limits = <<>>
    /\ li = 0
    /\ oi = 0
    /\ placed = [k \in PlacedKeys |-> 0]
    /\ resident = 0
    /\ fills = 0
    /\ book_before = OrderBook_new
    /\ market_before = 0

\* Limit::new(price) followed by one add_order per size, as the tests build
\* their Limit.
RECURSIVE LimitOf(_, _, _)
LimitOf(price, side, sizes) ==
    IF sizes = <<>> THEN Limit_new(price)
    ELSE add_order(LimitOf(price, side, SubSeq(sizes, 1, Len(sizes) - 1)),
                   Order_new(side, sizes[Len(sizes)], Len(sizes)))

\* One Limit of bids, holding any queue of one to MaxQueue orders of any
\* sizes, about to be filled (the set-up of tests::limit_order_multi_fill
\* and tests::limit_order_single_fill); the Limit is the only level of the
\* owned book, so that fill_market_order is fill_order on it.
LimitInit ==
    /\ \E n \in 1..MaxQueue : \E sizes \in [1..n -> TestSizes] :
           /\ orderbook = [OrderBook_new EXCEPT !.bids =
                               HashMapInsert(@, 100, LimitOf(100, "Bid", sizes))]
           /\ placed = [k \in PlacedKeys |->
                           IF k = <<"orderbook", "Bid", 100>> THEN n ELSE 0]
           /\ resident = n
    /\ engine = MatchingEngine_new
    /\ result = NoResult
    /\ pc = "idle"
    /\ market_order = NoOrder
    /\ limits = <<>>
    /\ li = 0
    /\ oi = 0
    /\ fills = 0
    /\ book_before = OrderBook_new
    /\ market_before = 0

FillVars == <<pc, market_order, limits, li, oi, fills, book_before,
              market_before>>

\* orderbook.add_limit_order(price, Order::new(side, size))
AddLimitOrder(price, side, size) ==
    /\ pc = "idle"
    /\ resident < MaxOrders
    /\ LET key == <<"orderbook", side, price>>
       IN  /\ orderbook' = add_limit_order(orderbook, price,
                               Order_new(side, size, placed[key] + 1))
           /\ placed' = [placed EXCEPT ![key] = @ + 1]
    /\ resident' = resident + 1
    /\ result' = NoResult
    /\ UNCHANGED engine
    /\ UNCHANGED FillVars

\* engine.add_new_market(pair)
AddNewMarket(pair) ==
    /\ pc = "idle"
    /\ engine' = add_new_market(engine, pair)
    /\ placed' = [k \in PlacedKeys |->
                     IF k[1] = to_string(pair) THEN 0 ELSE placed[k]]
    /\ resident' = resident - SumOver(placed, {to_string(pair)} \X Sides \X Prices)
    /\ result' = NoResult
    /\ UNCHANGED orderbook
    /\ UNCHANGED FillVars

\* engine.place_limit_order(pair, price, Order::new(side, size))
PlaceLimitOrder(pair, price, side, size) ==
    /\ pc = "idle"
    /\ resident < MaxOrders
    /\ LET key == <<to_string(pair), side, price>>
           r == place_limit_order(engine, pair, price,
                                  Order_new(side, size, placed[key] + 1))
       IN  /\ engine' = r.engine
           /\ result' = r.result
           /\ placed' = IF r.result.kind = "Ok"
                        THEN [placed EXCEPT ![key] = @ + 1]
                        ELSE placed
           /\ resident' = IF r.result.kind = "Ok" THEN resident + 1
                                                  ELSE resident
    /\ UNCHANGED orderbook
    /\ UNCHANGED FillVars

\* orderbook.fill_market_order(&mut Order::new(side, size)): the call, the
\* sorted `limits` of lines 26-29, and the loops' entry.
FillMarketOrder(side, size) ==
    /\ pc = "idle"
    /\ fills < MaxFills
    /\ fills' = fills + 1
    /\ LET order == Order_new(side, size, 0)
           map == Opposing(orderbook, order)
       IN  /\ market_order' = order
           /\ \E iter \in IterationOrders(map) :
                  /\ limits' = IF side = "Bid"
                               THEN ask_limits(orderbook, iter)
                               ELSE bid_limits(orderbook, iter)
                  /\ LET at == Seek(limits', map, order, 1, 0)
                     IN  /\ pc' = at.pc
                         /\ li' = at.li
                         /\ oi' = at.oi
    /\ book_before' = orderbook
    /\ market_before' = size
    /\ result' = NoResult
    /\ UNCHANGED <<orderbook, engine, placed, resident>>

\* One iteration of Limit::fill_order's loop (lines 111-126) on the level
\* limits[li], with the loop control up to the next iteration or the return.
FillOrder ==
    /\ pc = "fill"
    /\ LET key == limits[li]
           limit == Opposing(orderbook, market_order)[key]
           s == fill_order_step(market_order, limit.orders[oi + 1])
       IN  /\ market_order' = s.market
           /\ orderbook' =
                IF market_order.bid_or_ask = "Bid"
                THEN [orderbook EXCEPT
                        !.asks[key].orders[oi + 1] = s.limit_order]
                ELSE [orderbook EXCEPT
                        !.bids[key].orders[oi + 1] = s.limit_order]
           /\ IF is_filled(s.market)
              THEN /\ pc' = "returned"
                   /\ oi' = oi + 1
                   /\ li' = li
              ELSE LET at == Seek(limits, Opposing(orderbook', market_order),
                                  s.market, li, oi + 1)
                   IN  /\ pc' = at.pc
                       /\ li' = at.li
                       /\ oi' = at.oi
    /\ UNCHANGED <<engine, result, limits, placed, resident, fills, book_before,
                   market_before>>

\* A return of fill_market_order that reclaims the exhausted orders and the
\* levels they leave empty (a mutant of Return).
ReturnReclaiming ==
    LET Reclaimed(map) ==
            [p \in {q \in DOMAIN map :
                       \E j \in DOMAIN map[q].orders :
                           map[q].orders[j].size # 0} |->
                [map[p] EXCEPT
                    !.orders = SelectSeq(@, LAMBDA order : order.size # 0)]]
    IN  /\ pc = "returned"
        /\ pc' = "idle"
        /\ market_order' = NoOrder
        /\ limits' = <<>>
        /\ li' = 0
        /\ oi' = 0
        /\ book_before' = OrderBook_new
        /\ market_before' = 0
        /\ orderbook' = [asks |-> Reclaimed(orderbook.asks),
                         bids |-> Reclaimed(orderbook.bids)]
        /\ UNCHANGED <<engine, result, placed, resident, fills>>

\* fill_market_order has returned; the caller drops the market order.
Return ==
    /\ pc = "returned"
    /\ pc' = "idle"
    /\ market_order' = NoOrder
    /\ limits' = <<>>
    /\ li' = 0
    /\ oi' = 0
    /\ book_before' = OrderBook_new
    /\ market_before' = 0
    /\ UNCHANGED <<orderbook, engine, result, placed, resident, fills>>

Next ==
    \/ \E price \in Prices, side \in Sides, size \in Sizes :
           AddLimitOrder(price, side, size)
    \/ \E pair \in Pairs : AddNewMarket(pair)
    \/ \E pair \in Pairs, price \in EnginePrices, side \in Sides,
          size \in EngineSizes :
           PlaceLimitOrder(pair, price, side, size)
    \/ \E side \in Sides, size \in Sizes : FillMarketOrder(side, size)
    \/ FillOrder
    \/ Return

Spec == Init /\ [][Next]_vars

\* A directly owned OrderBook alone: the calls of the tests and of main.rs.
NextBook ==
    \/ \E price \in Prices, side \in Sides, size \in Sizes :
           AddLimitOrder(price, side, size)
    \/ \E side \in Sides, size \in Sizes : FillMarketOrder(side, size)
    \/ FillOrder
    \/ Return

BookSpec == Init /\ [][NextBook]_vars

\* The MatchingEngine alone.
NextEngine ==
    \/ \E pair \in Pairs : AddNewMarket(pair)
    \/ \E pair \in Pairs, price \in EnginePrices, side \in Sides,
          size \in EngineSizes :
           PlaceLimitOrder(pair, price, side, size)

EngineSpec == Init /\ [][NextEngine]_vars

\* Limit::fill_order alone, on the Limit of LimitInit, with market asks of
\* any size.
NextLimit ==
    \/ \E size \in TestSizes : FillMarketOrder("Ask", size)
    \/ FillOrder
    \/ Return

LimitSpec == LimitInit /\ [][NextLimit]_vars

----------------------------------------------------------------------------
(* Vocabulary of the properties *)

SideMap(book, side) == IF side = "Bid" THEN book.bids ELSE book.asks

RECURSIVE SeqSize(_)
SeqSize(orders) ==
    IF orders = <<>> THEN 0
    ELSE orders[Len(orders)].size + SeqSize(SubSeq(orders, 1, Len(orders) - 1))

\* The exact (real-number) sum of the sizes of all orders of a side.
RECURSIVE MapSize(_, _)
MapSize(map, keys) ==
    IF keys = {} THEN 0
    ELSE LET k == CHOOSE x \in keys : TRUE
         IN  SeqSize(map[k].orders) + MapSize(map, keys \ {k})

TotalSize(map) == MapSize(map, DOMAIN map)

Max(a, b) == IF a >= b THEN a ELSE b

InFill == pc \in {"fill", "returned"}

\* The side the running fill consumes, now and when the fill was called.
Resting == Opposing(orderbook, market_order)
RestingBefore == Opposing(book_before, market_order)

\* Price p has priority over price q for the running market order.
Better(p, q) == IF market_order.bid_or_ask = "Bid" THEN p < q ELSE p > q

\* Some order of the level at p is smaller than when the fill was called.
Reduced(p) ==
    \E j \in DOMAIN Resting[p].orders :
        Resting[p].orders[j].size < RestingBefore[p].orders[j].size

Exhausted(p) ==
    \A j \in DOMAIN Resting[p].orders : Resting[p].orders[j].size = 0

----------------------------------------------------------------------------
(* C1: price priority.  During and after fill_market_order the local       *)
(* `limits` lists every level of the opposing side from best to worst      *)
(* price (asks ascending for a Bid, bids descending for an Ask); whenever   *)
(* an order at an opposing level of price q has been reduced, every order   *)
(* at every strictly better-priced opposing level has size 0; the levels    *)
(* after the one the fill stands at (or returned from) are as they were     *)
(* when the fill was called, no level beyond the first is entered with a    *)
(* filled market order, and a market order of size 0 changes nothing.       *)
C1_PricePriority ==
    InFill =>
        /\ DOMAIN Resting = DOMAIN RestingBefore
        /\ {limits[i] : i \in DOMAIN limits} = DOMAIN Resting
        /\ \A i, j \in DOMAIN limits : i < j => Better(limits[i], limits[j])
        /\ \A p, q \in DOMAIN Resting :
               Better(p, q) /\ Reduced(q) => Exhausted(p)
        /\ \A i \in DOMAIN limits :
               i > li => Resting[limits[i]] = RestingBefore[limits[i]]
        /\ (pc = "fill" /\ li > 1) => ~is_filled(market_order)
        /\ market_before = 0 => orderbook = book_before

\* A Bid market order has swept the best ask level and reduced the next.
C1_Witness ==
    /\ pc = "returned"
    /\ market_order.bid_or_ask = "Bid"
    /\ li = 2
    /\ Reduced(limits[1])
    /\ Reduced(limits[2])

----------------------------------------------------------------------------
\* The positions of the level at p whose order holds a smaller, positive rest.
PartlyFilled(p) ==
    {j \in DOMAIN Resting[p].orders :
        /\ Resting[p].orders[j].size > 0
        /\ Resting[p].orders[j].size < RestingBefore[p].orders[j].size}

(* C2: time priority within one price level.  During and after a fill, in  *)
(* every queue of the opposing side: if the order at position j has been    *)
(* reduced then every order before j has size 0; at most one order is left  *)
(* with a smaller positive remainder, and every order queued after it has   *)
(* the size it had when the fill was called.                                *)
C2_TimePriority ==
    InFill =>
        \A p \in DOMAIN Resting :
            LET queue == Resting[p].orders
                before == RestingBefore[p].orders
            IN  /\ Len(queue) = Len(before)
                /\ \A j \in DOMAIN queue :
                       queue[j].size < before[j].size =>
                           \A i \in 1..(j - 1) : queue[i].size = 0
                /\ Cardinality(PartlyFilled(p)) <= 1
                /\ \A j \in PartlyFilled(p) :
                       \A k \in (j + 1)..Len(queue) :
                           queue[k].size = before[k].size

\* fill_order has exhausted the first order of a queue and left the second
\* with a positive remainder.
C2_Witness ==
    /\ pc = "returned"
    /\ \E p \in DOMAIN Resting :
           /\ Len(Resting[p].orders) >= 2
           /\ RestingBefore[p].orders[1].size > 0
           /\ Resting[p].orders[1].size = 0
           /\ 2 \in PartlyFilled(p)

----------------------------------------------------------------------------
(* C3 as stated: at every step of a fill, the sum of the sizes the resting  *)
(* orders had when the fill was called plus the market order's original     *)
(* size equals the sum of their current sizes plus the market order's       *)
(* current size.                                                            *)
C3_SumConserved ==
    InFill =>
        TotalSize(RestingBefore) + market_before
            = TotalSize(Resting) + market_order.size

(* C3 amended: a fill step changes only the market order and the resting   *)
(* order it visits; it sets the smaller of the two to 0 and the other to    *)
(* the f64 difference of the two sizes, so that the difference              *)
(* market size - resting size after the step is the f64 difference before   *)
(* it, and the sum of all sizes never increases (it drops by what was       *)
(* matched from both sides).                                                *)
C3_DifferenceConserved ==
    [][pc = "fill" =>
          LET key == limits[li]
              r == Resting[key].orders[oi + 1]
              r2 == Opposing(orderbook', market_order)[key].orders[oi + 1]
              m == market_order
              m2 == market_order'
          IN  /\ m2.size - r2.size = RoundF64(m.size - r.size)
              /\ m2.size = 0 \/ r2.size = 0
              /\ m2.size >= 0 /\ r2.size >= 0
              /\ orderbook' =
                    IF m.bid_or_ask = "Bid"
                    THEN [orderbook EXCEPT !.asks[key].orders[oi + 1] = r2]
                    ELSE [orderbook EXCEPT !.bids[key].orders[oi + 1] = r2]
              /\ r2 = [r EXCEPT !.size = r2.size]
              /\ m2 = [m EXCEPT !.size = m2.size]
              /\ TotalSize(Opposing(orderbook', m)) + m2.size
                     <= TotalSize(Resting) + m.size
      ]_vars

\* A step has matched a market order against a larger resting order, and
\* the subtraction was rounded: the resting order lost more than the market
\* order held.
C3_Witness ==
    /\ pc = "returned"
    /\ oi = 1
    /\ li = 1
    /\ market_order.size = 0
    /\ market_before > 0
    /\ Resting[limits[1]].orders[1].size > 0
    /\ Resting[limits[1]].orders[1].size
           < RestingBefore[limits[1]].orders[1].size - market_before

----------------------------------------------------------------------------
(* C4: non-negativity.  Orders being created with sizes >= 0 (Sizes), in   *)
(* every state reached by add_limit_order and fill_market_order calls,      *)
(* between the steps of a fill included, every resting order and the        *)
(* market order have a size >= 0.                                           *)
C4_NonNegative ==
    /\ market_order.size >= 0
    /\ \A side \in Sides :
           \A p \in DOMAIN SideMap(orderbook, side) :
               \A j \in DOMAIN SideMap(orderbook, side)[p].orders :
                   SideMap(orderbook, side)[p].orders[j].size >= 0

\* In the middle of a fill: the market order has exhausted one resting
\* order, holds a positive rest and goes on to the next order.
C4_Witness ==
    /\ pc = "fill"
    /\ market_order.size > 0
    /\ market_order.size < market_before
    /\ \E p \in DOMAIN Resting : Reduced(p) /\ Exhausted(p)

----------------------------------------------------------------------------
(* C5: place_limit_order for a pair with no registered OrderBook returns   *)
(* the error whose message names the pair as base_quote, and changes        *)
(* nothing: the registered pairs and every registered book (and the owned   *)
(* orderbook) are as before the call.                                       *)
C5_UnknownMarket ==
    [][\A pair \in Pairs, price \in EnginePrices, side \in Sides,
          size \in EngineSizes :
           (/\ PlaceLimitOrder(pair, price, side, size)
            /\ pair \notin DOMAIN engine.orderbooks)
           => /\ engine' = engine
              /\ orderbook' = orderbook
              /\ placed' = placed
              /\ result'.kind = "Err"
              /\ result'.message =
                     "the orderbook for the given trading pair ("
                     \o pair.base \o "_" \o pair.quote \o ") does not exist"
      ]_vars

\* A placement for ETH_USD has just failed while BTC_USD is registered and
\* holds an order.
C5_Witness ==
    LET btc == [base |-> "BTC", quote |-> "USD"]
        eth == [base |-> "ETH", quote |-> "USD"]
    IN  /\ result.kind = "Err"
        /\ result.message =
               "the orderbook for the given trading pair (ETH_USD) does not exist"
        /\ DOMAIN engine.orderbooks = {btc}
        /\ engine.orderbooks[btc] # OrderBook_new

----------------------------------------------------------------------------
(* C6 as stated: with m the market order's original size and V the exact   *)
(* sum of the opposing side's sizes when fill_market_order was called, on   *)
(* return the market order's size is max(0, m - V) and the opposing side's  *)
(* total size is max(0, V - m).                                             *)
C6_FillAmount ==
    pc = "returned" =>
        LET V == TotalSize(RestingBefore)
        IN  /\ market_order.size = Max(0, market_before - V)
            /\ TotalSize(Resting) = Max(0, V - market_before)

----------------------------------------------------------------------------
(* C7: in every state, whatever order the HashMap yields the levels in,    *)
(* ask_limits() returns every ask level exactly once in strictly ascending  *)
(* price order and bid_limits() returns every bid level exactly once in     *)
(* strictly descending price order.                                         *)
C7_SortedLimits ==
    /\ \A iter \in IterationOrders(orderbook.asks) :
           LET sorted == ask_limits(orderbook, iter)
           IN  /\ Len(sorted) = Cardinality(DOMAIN orderbook.asks)
               /\ {sorted[i] : i \in DOMAIN sorted} = DOMAIN orderbook.asks
               /\ \A i, j \in DOMAIN sorted :
                      i < j => orderbook.asks[sorted[i]].price
                                   < orderbook.asks[sorted[j]].price
    /\ \A iter \in IterationOrders(orderbook.bids) :
           LET sorted == bid_limits(orderbook, iter)
           IN  /\ Len(sorted) = Cardinality(DOMAIN orderbook.bids)
               /\ {sorted[i] : i \in DOMAIN sorted} = DOMAIN orderbook.bids
               /\ \A i, j \in DOMAIN sorted :
                      i < j => orderbook.bids[sorted[i]].price
                                   > orderbook.bids[sorted[j]].price

\* The book has three bid levels, which the HashMap may yield in six orders.
C7_Witness ==
    /\ Cardinality(DOMAIN orderbook.bids) = 3
    /\ Cardinality(IterationOrders(orderbook.bids)) = 6

----------------------------------------------------------------------------
(* The books there are, by name. *)

LiveBooks(eng) ==
    {"orderbook"} \cup {to_string(pair) : pair \in DOMAIN eng.orderbooks}

BookNamed(book, eng, name) ==
    IF name = "orderbook" THEN book
    ELSE eng.orderbooks[CHOOSE pair \in DOMAIN eng.orderbooks :
                            to_string(pair) = name]

(* C8: in every state each side of every book holds at most one Limit per  *)
(* price: a Limit's price is its map key, no two Limits of a side have the  *)
(* same price, its orders all have the side of the map it is in, and it     *)
(* holds as many orders as were placed at that book, side and price (so a   *)
(* second placement at a price went to the existing Limit, not a new one).  *)
C8_OneLimitPerPrice ==
    \A name \in LiveBooks(engine), side \in Sides :
        LET map == SideMap(BookNamed(orderbook, engine, name), side)
        IN  /\ \A p \in DOMAIN map :
                   /\ map[p].price = p
                   /\ Len(map[p].orders) = placed[<<name, side, p>>]
                   /\ \A j \in DOMAIN map[p].orders :
                          map[p].orders[j].bid_or_ask = side
            /\ \A p, q \in DOMAIN map : map[p].price = map[q].price => p = q
            /\ \A p \in Prices \ DOMAIN map : placed[<<name, side, p>>] = 0

\* Three orders placed at one side and price of the owned book.
C8_Witness ==
    \E side \in Sides, p \in Prices :
        /\ p \in DOMAIN SideMap(orderbook, side)
        /\ Len(SideMap(orderbook, side)[p].orders) = 3

----------------------------------------------------------------------------
(* C9: FIFO preservation.  In every state, fills running or done, the      *)
(* queue of each Limit lists exactly the orders placed at its book, side    *)
(* and price, in placement order: its j-th order is the j-th one placed     *)
(* there.                                                                   *)
C9_Fifo ==
    \A name \in LiveBooks(engine), side \in Sides :
        LET map == SideMap(BookNamed(orderbook, engine, name), side)
        IN  \A p \in DOMAIN map :
                /\ Len(map[p].orders) = placed[<<name, side, p>>]
                /\ \A j \in DOMAIN map[p].orders : map[p].orders[j].id = j

\* After a fill has left the first order of a queue partly filled, a later
\* placement has queued behind it.
C9_Witness ==
    /\ pc = "idle"
    /\ \E side \in Sides : \E p \in DOMAIN SideMap(orderbook, side) :
           LET queue == SideMap(orderbook, side)[p].orders
           IN  /\ Len(queue) >= 2
               /\ queue[1].size \notin Sizes
               /\ queue[2].size \in Sizes \ {0}

----------------------------------------------------------------------------
\* The orders present in both books (same side, price and identity), as
\* pairs <<size in old, size in new>>.
CarriedInQueue(old_queue, new_queue) ==
    {<<old_queue[x[1]].size, new_queue[x[2]].size>> :
        x \in {y \in (DOMAIN old_queue) \X (DOMAIN new_queue) :
                  old_queue[y[1]].id = new_queue[y[2]].id}}

Carried(old, new) ==
    IF old = new THEN {}
    ELSE UNION {UNION {CarriedInQueue(SideMap(old, side)[p].orders,
                                      SideMap(new, side)[p].orders) :
                       p \in (DOMAIN SideMap(old, side))
                                 \cap (DOMAIN SideMap(new, side))} :
                side \in Sides}

(* C10: in every step of every operation, every order that exists before   *)
(* and after the step (a resting order of any book, or the market order of  *)
(* the running fill) has a size after the step <= its size before; and a    *)
(* step that changes a size is a step of the fill algorithm.                *)
C10_SizeNonIncreasing ==
    [][LET carried ==
               Carried(orderbook, orderbook')
                   \cup UNION {Carried(engine.orderbooks[pair],
                                       engine'.orderbooks[pair]) :
                               pair \in (DOMAIN engine.orderbooks)
                                            \cap (DOMAIN engine'.orderbooks)}
           market_carried == pc # "idle" /\ pc' # "idle"
       IN  /\ \A c \in carried : c[2] <= c[1]
           /\ market_carried => market_order'.size <= market_order.size
           /\ ((\E c \in carried : c[2] # c[1])
                  \/ (market_carried /\ market_order'.size # market_order.size))
                  => pc = "fill"
      ]_vars

\* A fill has reduced a resting order while the engine holds an order that
\* was placed through place_limit_order.
C10_Witness ==
    /\ pc = "returned"
    /\ market_order.size < market_before
    /\ \E p \in DOMAIN Resting : Reduced(p)
    /\ \E pair \in DOMAIN engine.orderbooks :
           engine.orderbooks[pair] # OrderBook_new

----------------------------------------------------------------------------
\* The order at position j of the level at p on `side` was in the book
\* before the step.
WasResting(side, p, j) ==
    /\ p \in DOMAIN SideMap(orderbook, side)
    /\ j <= Len(SideMap(orderbook, side)[p].orders)

\* A step never turns a Filled order (size 0) back into an Open one.
FilledIsTerminal ==
    /\ \A side \in Sides : \A p \in DOMAIN SideMap(orderbook, side) :
           \A j \in DOMAIN SideMap(orderbook, side)[p].orders :
               SideMap(orderbook, side)[p].orders[j].size = 0
                   => /\ WasResting(side, p, j)'
                      /\ SideMap(orderbook', side)[p].orders[j].size = 0
    /\ (pc # "idle" /\ market_order.size = 0) => market_order'.size = 0

(* C11 as stated: an order is Open while its size is above 0 and Filled    *)
(* when it is 0; Filled is terminal; and the Filled state is reached only  *)
(* through fill operations: an order that is Filled after a step either    *)
(* was Filled before it or the step is an iteration of fill_order.         *)
C11_FilledOnlyByFill ==
    [][ /\ FilledIsTerminal
        /\ \A side \in Sides : \A p \in DOMAIN SideMap(orderbook', side) :
               \A j \in DOMAIN SideMap(orderbook', side)[p].orders :
                   SideMap(orderbook', side)[p].orders[j].size = 0
                       => \/ pc = "fill"
                          \/ /\ WasResting(side, p, j)
                             /\ SideMap(orderbook, side)[p].orders[j].size = 0
      ]_vars

(* C11, amended: Filled is terminal, and an Open order becomes Filled only *)
(* in an iteration of fill_order, as the resting order that iteration      *)
(* matches (or as its market order); an order that is in the book for the  *)
(* first time after a step and is Filled was created with size 0 by        *)
(* add_limit_order, without any fill.                                      *)
C11_OpenToFilledByFill ==
    [][ /\ FilledIsTerminal
        /\ \A side \in Sides : \A p \in DOMAIN SideMap(orderbook', side) :
               \A j \in DOMAIN SideMap(orderbook', side)[p].orders :
                   SideMap(orderbook', side)[p].orders[j].size = 0
                       => IF WasResting(side, p, j)
                          THEN \/ SideMap(orderbook, side)[p].orders[j].size = 0
                               \/ /\ pc = "fill"
                                  /\ side # market_order.bid_or_ask
                                  /\ p = limits[li]
                                  /\ j = oi + 1
                          ELSE /\ pc = "idle" /\ pc' = "idle"
                               /\ resident' = resident + 1
        /\ (market_order.size > 0 /\ market_order'.size = 0)
               => pc = "fill" \/ pc = "returned"
      ]_vars

\* A fill has returned with an order exhausted that was Open when the fill
\* was called, next to an order that was Filled already and still is.
C11_Witness ==
    /\ pc = "returned"
    /\ \E p \in DOMAIN Resting :
           \E j \in DOMAIN Resting[p].orders, k \in DOMAIN Resting[p].orders :
               /\ RestingBefore[p].orders[j].size > 0
               /\ Resting[p].orders[j].size = 0
               /\ RestingBefore[p].orders[k].size = 0
               /\ Resting[p].orders[k].size = 0

----------------------------------------------------------------------------
\* The queue of the level at price on `side` of book; empty without a level.
QueueAt(book, side, price) ==
    IF price \in DOMAIN SideMap(book, side)
    THEN SideMap(book, side)[price].orders
    ELSE <<>>

(* C12: place_limit_order for a registered pair returns Ok, and the pair's *)
(* book then has a Limit at the given price on the order's side whose      *)
(* queue is the queue it had before (empty when there was no such level)   *)
(* followed by the order; every other level of that book and every other   *)
(* book is unchanged.  On a book just registered, one bid of size s at     *)
(* price p leaves no ask level and exactly one bid Limit, at p, holding    *)
(* exactly one order, of size s.                                           *)
C12_PlaceOnRegistered ==
    [][ \A pair \in Pairs, price \in EnginePrices, side \in Sides,
           size \in EngineSizes :
            (PlaceLimitOrder(pair, price, side, size)
                /\ pair \in DOMAIN engine.orderbooks)
            => LET old == engine.orderbooks[pair]
                   new == engine'.orderbooks[pair]
                   queue == QueueAt(new, side, price)
               IN  /\ result' = Ok
                   /\ DOMAIN engine'.orderbooks = DOMAIN engine.orderbooks
                   /\ \A other \in DOMAIN engine.orderbooks \ {pair} :
                          engine'.orderbooks[other] = engine.orderbooks[other]
                   /\ DOMAIN SideMap(new, side)
                          = DOMAIN SideMap(old, side) \cup {price}
                   /\ \A p \in DOMAIN SideMap(old, side) \ {price} :
                          SideMap(new, side)[p] = SideMap(old, side)[p]
                   /\ \A s \in Sides \ {side} : SideMap(new, s) = SideMap(old, s)
                   /\ SideMap(new, side)[price].price = price
                   /\ Len(queue) = Len(QueueAt(old, side, price)) + 1
                   /\ SubSeq(queue, 1, Len(queue) - 1) = QueueAt(old, side, price)
                   /\ queue[Len(queue)].size = size
                   /\ queue[Len(queue)].bid_or_ask = side
                   /\ (old = OrderBook_new /\ side = "Bid")
                          => /\ new.asks = EmptyMap
                             /\ DOMAIN new.bids = {price}
                             /\ Len(new.bids[price].orders) = 1
                             /\ new.bids[price].orders[1].size = size
      ]_vars

\* place_limit_order has just returned Ok, having queued an order behind
\* another one, while a second registered book holds its one bid.
C12_Witness ==
    /\ result = Ok
    /\ \E pair \in DOMAIN engine.orderbooks, other \in DOMAIN engine.orderbooks :
           /\ \E side \in Sides :
                  \E p \in DOMAIN SideMap(engine.orderbooks[pair], side) :
                      Len(SideMap(engine.orderbooks[pair], side)[p].orders) = 2
           /\ engine.orderbooks[other].asks = EmptyMap
           /\ \E p \in DOMAIN engine.orderbooks[other].bids :
                  /\ DOMAIN engine.orderbooks[other].bids = {p}
                  /\ Len(engine.orderbooks[other].bids[p].orders) = 1

----------------------------------------------------------------------------
(* C13: add_new_market(pair) leaves pair registered with an OrderBook that *)
(* has no ask level and no bid level, whether or not pair was registered   *)
(* and whatever its book held; the registered pairs are those of before    *)
(* and pair, and the book of every other pair is unchanged.                *)
C13_FreshMarket ==
    [][ \A pair \in Pairs :
            AddNewMarket(pair)
            => /\ DOMAIN engine'.orderbooks = DOMAIN engine.orderbooks \cup {pair}
               /\ engine'.orderbooks[pair].asks = EmptyMap
               /\ engine'.orderbooks[pair].bids = EmptyMap
               /\ \A other \in DOMAIN engine.orderbooks \ {pair} :
                      engine'.orderbooks[other] = engine.orderbooks[other]
      ]_vars

\* add_new_market has just returned: a registered pair has an empty book
\* while the other registered pair still holds its resting orders.
C13_Witness ==
    /\ result = NoResult
    /\ \E pair \in DOMAIN engine.orderbooks, other \in DOMAIN engine.orderbooks :
           /\ engine.orderbooks[pair] = OrderBook_new
           /\ engine.orderbooks[other].bids # EmptyMap
           /\ engine.orderbooks[other].asks # EmptyMap

----------------------------------------------------------------------------
\* The queue of the bid Limit a fill_order run works on, now and when the
\* run was called.
LimitQueue == orderbook.bids[100].orders
LimitQueueBefore == book_before.bids[100].orders

\* The Limit held two orders of one positive size and the market order was
\* large enough to consume the first of them but not the second.
TwoEqualOrders ==
    /\ market_order.bid_or_ask = "Ask"
    /\ Len(LimitQueueBefore) = 2
    /\ LimitQueueBefore[1].size = LimitQueueBefore[2].size
    /\ LimitQueueBefore[1].size > 0
    /\ market_before >= LimitQueueBefore[1].size
    /\ market_before - LimitQueueBefore[1].size < LimitQueueBefore[2].size

(* C14: when fill_order returns from a Limit that held two resting orders  *)
(* of equal size, with a market order large enough to consume the first    *)
(* but not the second, the first order has size 0, the second has exactly  *)
(* first.size + second.size - market.size (no rounding), and the market    *)
(* order has size 0.                                                       *)
C14_TwoEqualOrders ==
    (pc = "returned" /\ TwoEqualOrders)
        => /\ LimitQueue[1].size = 0
           /\ LimitQueue[2].size = LimitQueueBefore[1].size
                  + LimitQueueBefore[2].size - market_before
           /\ market_order.size = 0

\* Such a fill has returned with the second order partly filled.
C14_Witness ==
    /\ pc = "returned"
    /\ TwoEqualOrders
    /\ LimitQueue[1].size = 0
    /\ LimitQueue[2].size > 0
    /\ LimitQueue[2].size < LimitQueueBefore[2].size

----------------------------------------------------------------------------
(* C15: whatever add_order and fill_order calls a Limit with a non-empty   *)
(* queue has seen, total_volume() returns the sum of the sizes its orders  *)
(* have now, an exhausted order counting 0.                                *)
C15_TotalVolume ==
    \A p \in DOMAIN orderbook.bids :
        orderbook.bids[p].orders # <<>>
            => /\ ~total_volume(orderbook.bids[p]).panicked
               /\ total_volume(orderbook.bids[p]).value
                      = SeqSize(orderbook.bids[p].orders)

----------------------------------------------------------------------------
\* Every order some book holds, and the market order of a running fill.
AllOrders ==
    LET OfBook(book) ==
            UNION {{SideMap(book, side)[p].orders[j] :
                       j \in DOMAIN SideMap(book, side)[p].orders} :
                   <<side, p>> \in {sp \in Sides \X Prices :
                                       sp[2] \in DOMAIN SideMap(book, sp[1])}}
    IN  OfBook(orderbook)
            \cup UNION {OfBook(engine.orderbooks[pair]) :
                            pair \in DOMAIN engine.orderbooks}
            \cup (IF InFill THEN {market_order} ELSE {})

(* C16: for every order of every reachable state (resting or the market    *)
(* order of a running fill), is_filled() is true exactly when the size is  *)
(* 0; and the fill loops, which stop on is_filled(), have returned through *)
(* their break exactly when the market order's size is 0, and go on to a   *)
(* further resting order only while it is not 0.                           *)
C16_IsFilled ==
    /\ \A order \in AllOrders : is_filled(order) <=> order.size = 0
    /\ (pc = "returned" /\ li > 0) => (oi > 0 <=> market_order.size = 0)
    /\ (pc = "fill" /\ (li > 1 \/ oi > 0)) => market_order.size > 0

\* A fill has returned through its break, the market order at size 0, with
\* a resting order exhausted, one cut to a remainder and one never visited.
C16_Witness ==
    /\ pc = "returned"
    /\ oi > 0
    /\ is_filled(market_order)
    /\ \E p \in DOMAIN Resting :
           /\ \E j \in DOMAIN Resting[p].orders :
                  /\ is_filled(Resting[p].orders[j])
                  /\ RestingBefore[p].orders[j].size > 0
           /\ \E j \in DOMAIN Resting[p].orders :
                  /\ ~is_filled(Resting[p].orders[j])
                  /\ Resting[p].orders[j].size < RestingBefore[p].orders[j].size
    /\ li < Len(limits)

----------------------------------------------------------------------------
(* C17: no reclamation.  Across every step of add_limit_order and of       *)
(* fill_market_order, on both sides of the book, every price level stays,  *)
(* no queue gets shorter and every order, exhausted or not, keeps its      *)
(* position in its queue; a step of a fill (its call, an iteration, its    *)
(* return) changes neither the set of levels nor the length of any queue.  *)
C17_NoReclamation ==
    [][ \A side \in Sides :
          /\ \A p \in DOMAIN SideMap(orderbook, side) :
                 /\ p \in DOMAIN SideMap(orderbook', side)
                 /\ Len(SideMap(orderbook', side)[p].orders)
                        >= Len(SideMap(orderbook, side)[p].orders)
                 /\ \A j \in DOMAIN SideMap(orderbook, side)[p].orders :
                        SideMap(orderbook', side)[p].orders[j].id
                            = SideMap(orderbook, side)[p].orders[j].id
          /\ (pc # "idle" \/ pc' # "idle")
                 => /\ DOMAIN SideMap(orderbook', side)
                           = DOMAIN SideMap(orderbook, side)
                    /\ \A p \in DOMAIN SideMap(orderbook, side) :
                           Len(SideMap(orderbook', side)[p].orders)
                               = Len(SideMap(orderbook, side)[p].orders)
      ]_vars

\* A fill has returned having exhausted both orders of a level, which was
\* Open when the fill was called: the level and its two orders are still
\* in the book.
C17_Witness ==
    /\ pc = "returned"
    /\ \E p \in DOMAIN RestingBefore :
           /\ p \in DOMAIN Resting
           /\ Len(RestingBefore[p].orders) = 2
           /\ Len(Resting[p].orders) = 2
           /\ \A j \in DOMAIN Resting[p].orders :
                  /\ RestingBefore[p].orders[j].size > 0
                  /\ Resting[p].orders[j].size = 0

----------------------------------------------------------------------------
(* C18: matched-quantity equality.  At every step of a fill_market_order   *)
(* call (and of the fill_order calls in it), the amount by which the       *)
(* market order's size has gone down since the call equals the sum of the  *)
(* amounts by which the resting orders' sizes have gone down.              *)
C18_MatchedEqual ==
    InFill => market_before - market_order.size
                  = TotalSize(RestingBefore) - TotalSize(Resting)

----------------------------------------------------------------------------
\* Every Limit stored in the owned book or in a book of the engine.
AllLimits ==
    LET OfBook(book) ==
            {SideMap(book, sp[1])[sp[2]] :
                sp \in {x \in Sides \X Prices : x[2] \in DOMAIN SideMap(book, x[1])}}
    IN  OfBook(orderbook)
            \cup UNION {OfBook(engine.orderbooks[pair]) :
                            pair \in DOMAIN engine.orderbooks}

(* C19: non-empty levels.  In every state reachable through                *)
(* add_limit_order, fill_market_order, add_new_market and                  *)
(* place_limit_order, every Limit stored in an OrderBook has at least one  *)
(* order in its queue, and total_volume() on it does not panic.            *)
C19_NonEmptyLevels ==
    \A limit \in AllLimits :
        /\ Len(limit.orders) >= 1
        /\ ~total_volume(limit).panicked

\* A fill on the owned book has exhausted a level, which is still stored,
\* while a book of the engine holds levels on both sides.
C19_Witness ==
    /\ pc = "returned"
    /\ \E p \in DOMAIN Resting : Exhausted(p) /\ ~total_volume(Resting[p]).panicked
    /\ \E pair \in DOMAIN engine.orderbooks :
           /\ engine.orderbooks[pair].bids # EmptyMap
           /\ engine.orderbooks[pair].asks # EmptyMap

----------------------------------------------------------------------------
\* Placing an order on `side` of old gave new: the other side is as it was,
\* and on the order's side every level is still there with its queue as it
\* was, followed by at most the new order.
OnlyRested(old, new, side) ==
    /\ \A other \in Sides \ {side} : SideMap(new, other) = SideMap(old, other)
    /\ \A p \in DOMAIN SideMap(old, side) :
           /\ p \in DOMAIN SideMap(new, side)
           /\ SubSeq(SideMap(new, side)[p].orders, 1,
                     Len(SideMap(old, side)[p].orders))
                  = SideMap(old, side)[p].orders

\* Some bid of positive size is priced at or above some ask of positive
\* size.
Crossed(book) ==
    \E b \in DOMAIN book.bids, a \in DOMAIN book.asks :
        /\ b >= a
        /\ \E j \in DOMAIN book.bids[b].orders : book.bids[b].orders[j].size > 0
        /\ \E j \in DOMAIN book.asks[a].orders : book.asks[a].orders[j].size > 0

(* C20: placement never matches.  add_limit_order, and place_limit_order   *)
(* through it, changes the size of no order already in the book and        *)
(* touches only the side of the order placed, whatever the prices on the   *)
(* opposite side, also when the book is crossed before or after the call;  *)
(* no other book changes.                                                  *)
C20_PlacementNeverMatches ==
    [][ /\ \A price \in Prices, side \in Sides, size \in Sizes :
               AddLimitOrder(price, side, size)
               => /\ OnlyRested(orderbook, orderbook', side)
                  /\ engine' = engine
        /\ \A pair \in Pairs, price \in EnginePrices, side \in Sides,
               size \in EngineSizes :
               PlaceLimitOrder(pair, price, side, size)
               => /\ orderbook' = orderbook
                  /\ DOMAIN engine'.orderbooks = DOMAIN engine.orderbooks
                  /\ \A other \in DOMAIN engine.orderbooks \ {pair} :
                         engine'.orderbooks[other] = engine.orderbooks[other]
                  /\ pair \in DOMAIN engine.orderbooks
                         => OnlyRested(engine.orderbooks[pair],
                                       engine'.orderbooks[pair], side)
      ]_vars

\* With no fill called yet, the owned book or a book of the engine rests a
\* bid of positive size priced at or above an ask of positive size, the
\* engine or the owned book holding orders as well.
C20_Witness ==
    /\ fills = 0
    /\ pc = "idle"
    /\ \/ /\ Crossed(orderbook)
          /\ \E pair \in DOMAIN engine.orderbooks :
                 engine.orderbooks[pair] # OrderBook_new
       \/ /\ orderbook # OrderBook_new
          /\ \E pair \in DOMAIN engine.orderbooks :
                 Crossed(engine.orderbooks[pair])
====
